---- MODULE Spec2Model ----
(***************************************************************************)
(* QToggle (src/QToggle.py): a QCheckBox subclass painted as a toggle      *)
(* switch.  The model is the widget's state, the handlers the class        *)
(* defines, and the parts of the base classes those handlers call into     *)
(* (QAbstractButton's press/release/click, QPropertyAnimation's run).      *)
(*                                                                         *)
(* Units.  _circle_pos is kept in tenths of a pixel, so height*0.1 is      *)
(* height*1 and height*1.1 is height*11.  Times are milliseconds.  A       *)
(* colour is a triple <<r, g, b>> of 8-bit channels.  Python's None is the *)
(* empty tuple, a float value v is <<v>>.                                  *)
(***************************************************************************)
EXTENDS Integers, Sequences, FiniteSets, TLC

VARIABLES
    _bg_color, _circle_color, _active_color, _disabled_color, _text_color,
    _circle_pos, _intermediate_bg_color,
    _animation_duration, _user_checked,
    checked,      \* QAbstractButton: isChecked()
    down,         \* QAbstractButton: isDown()
    enabled,      \* QWidget: isEnabled()
    shown,        \* QWidget: the widget has had its show event
    height,       \* QWidget: height()
    text_width,   \* QFontMetrics(font()).boundingRect(text()).width()
    posAnim,      \* the running QPropertyAnimation on b'circle_pos'
    colAnim,      \* the running QPropertyAnimation on b'intermediate_bg_color'
    held,         \* the mouse button the user is holding, "none" if none
    painted,      \* what paintEvent drew, when the last event was a paint
    hint,         \* what the last sizeHint() call returned, with its inputs
    prevHint,     \* the sizeHint() call before that
    expected,     \* history: last setChecked value, flipped per completed click
    pressedIn,    \* history: the held left press landed in the contents rect
    lastSet,      \* history: the last colour given to each colour property
    sinceClick    \* history: a click changed the state and nothing but
                  \* animation steps and paints happened since

colours == <<_bg_color, _circle_color, _active_color, _disabled_color,
             _text_color>>
display == <<_circle_pos, _intermediate_bg_color>>
anims   == <<posAnim, colAnim>>
button  == <<checked, down, _user_checked>>
hints   == <<text_width, hint, prevHint>>
vars == <<colours, display, anims, button, hints, _animation_duration,
          enabled, shown, height, held, painted,
          expected, pressedIn, lastSet, sinceClick>>

----------------------------------------------------------------------------
(* Bounds and input sets *)

\* Milliseconds between two updates of the toolkit's animation timer.
TickMs == 1000

\* Largest text width (pixels) the size-hint inputs take.
MaxTextWidth == 40

None == << >>
Some(v) == <<v>>

QColor_0BF == <<0, 187, 255>>
QColor_DDD == <<221, 221, 221>>
QColor_777 == <<119, 119, 119>>
QColor_CCC == <<204, 204, 204>>
QColor_000 == <<0, 0, 0>>
QColor_FAA == <<255, 170, 170>>

\* Colours the property setters are called with.
Palette == {QColor_FAA}

\* Heights given to setFixedHeight: the constructor's and the example's.
DefaultHeight == 18
Heights == {DefaultHeight, 24}

\* Durations given to setDuration: the constructor's and the example's.
DefaultDuration == 500
Durations == {DefaultDuration, 2000}

\* Text widths (pixels): none, two neighbours whose scaled widths differ by
\* two once truncated, and the largest.
TextWidths == {0, 13, 14, MaxTextWidth}

\* What QCheckBox.sizeHint() returns (the style decides it).
BaseHints == {[width |-> 13, height |-> 13], [width |-> 90, height |-> 17]}

ColourProps == {"bg_color", "circle_color", "active_color",
                "disabled_color", "text_color"}

NoAnim == [running |-> FALSE]
NotPainted == [kind |-> "none"]
NoHint == [kind |-> "none"]

\* Qt.CheckState as stateChanged(int) delivers it.
Unchecked == 0
Checked == 2
CheckState(b) == IF b THEN Checked ELSE Unchecked

Min(a, b) == IF a < b THEN a ELSE b

----------------------------------------------------------------------------
(* Property accessors *)

\* The getter lambdas of the five colour pyqtProperty objects.
colour_property(name) ==
    CASE name = "bg_color"       -> _bg_color
      [] name = "circle_color"   -> _circle_color
      [] name = "active_color"   -> _active_color
      [] name = "disabled_color" -> _disabled_color
      [] name = "text_color"     -> _text_color

\* Faulty variant: the bg_color and active_color setters also refresh the colour
\* being displayed.
set_colour_property_refreshing(name, col) ==
    /\ _bg_color'       = IF name = "bg_color"       THEN col ELSE _bg_color
    /\ _circle_color'   = IF name = "circle_color"   THEN col ELSE _circle_color
    /\ _active_color'   = IF name = "active_color"   THEN col ELSE _active_color
    /\ _disabled_color' = IF name = "disabled_color" THEN col
                                                     ELSE _disabled_color
    /\ _text_color'     = IF name = "text_color"     THEN col ELSE _text_color
    /\ _intermediate_bg_color' =
           IF checked THEN _active_color' ELSE _bg_color'
    /\ UNCHANGED <<_circle_pos, anims, button, _animation_duration>>

\* The setter lambdas: setattr(self, '_<name>', col) and nothing else.
set_colour_property(name, col) ==
    /\ _bg_color'       = IF name = "bg_color"       THEN col ELSE _bg_color
    /\ _circle_color'   = IF name = "circle_color"   THEN col ELSE _circle_color
    /\ _active_color'   = IF name = "active_color"   THEN col ELSE _active_color
    /\ _disabled_color' = IF name = "disabled_color" THEN col
                                                     ELSE _disabled_color
    /\ _text_color'     = IF name = "text_color"     THEN col ELSE _text_color
    /\ UNCHANGED <<display, anims, button, _animation_duration>>

----------------------------------------------------------------------------
(* Geometry *)

\* Faulty variant: the toggle's own width (twice the height) left out.
sizeHintWidth_text_only(h, tw) == (1075 * tw) \div 1000

\* int(self.height() * 2 + text_width * 1.075), int() truncating toward zero.
sizeHintWidth(h, tw) ==
    LET milli == 2000 * h + 1075 * tw
    IN  IF milli >= 0 THEN milli \div 1000 ELSE -((-milli) \div 1000)

\* The width the layout gives the widget: its size hint's.
width == sizeHintWidth(height, text_width)

contentsRect == [x |-> 0, y |-> 0, w |-> width, h |-> height]

QRect_contains(r, pos) ==
    /\ r.x <= pos[1] /\ pos[1] < r.x + r.w
    /\ r.y <= pos[2] /\ pos[2] < r.y + r.h

\* Faulty variant: only the square at the left edge takes clicks.
hitButton_square(pos) ==
    QRect_contains([x |-> 0, y |-> 0, w |-> height, h |-> height], pos)

hitButton(pos) == QRect_contains(contentsRect, pos)

\* Where the user presses and releases: the corners of the contents
\* rectangle and the points just outside it.
MousePoints == {<<0, 0>>, <<width - 1, height - 1>>,
                <<0, height>>, <<width, 0>>, <<-1, 0>>}

----------------------------------------------------------------------------
(* Animation: QPropertyAnimation with QEasingCurve.Type.InOutCubic *)

\* InOutCubic at progress p/1000, in thousandths.
InOutCubic(p) ==
    IF 2 * p < 1000
    THEN (4 * p * p * p) \div 1000000
    ELSE LET q == 2000 - 2 * p IN 1000 - ((q * q * q) \div 2000000)

Progress(a) == InOutCubic((a.currentTime * 1000) \div a.duration)

Interpolate(f, t, e) == ((1000 - e) * f + e * t) \div 1000

\* The value the animation writes to its property at its current time.
currentValue(a) ==
    IF a.currentTime >= a.duration THEN a.endValue
    ELSE IF a.currentTime = 0 THEN a.startValue
    ELSE [i \in DOMAIN a.startValue |->
             Interpolate(a.startValue[i], a.endValue[i], Progress(a))]

_create_common_animation(state, start_val, end_val) ==
    [running     |-> TRUE,
     duration    |-> _animation_duration,
     startValue  |-> IF state # Unchecked THEN start_val ELSE end_val,
     endValue    |-> IF state # Unchecked THEN end_val ELSE start_val,
     currentTime |-> 0]

create_animation(state) ==
    _create_common_animation(state, Some(height * 1), Some(height * 11))

create_bg_color_animation(state) ==
    _create_common_animation(state, _bg_color, _active_color)

----------------------------------------------------------------------------
(* State change *)

\* Faulty variant: the position set, the colour forgotten.
update_pos_color_position_only(chk) ==
    /\ _circle_pos' = Some(height' * (IF chk THEN 11 ELSE 1))
    /\ UNCHANGED _intermediate_bg_color

\* update_pos_color(checked): reads height() and isChecked() as they are
\* when it runs, that is after the step's change to them.
update_pos_color(chk) ==
    /\ _circle_pos' = Some(height' * (IF chk THEN 11 ELSE 1))
    /\ _intermediate_bg_color' =
           IF checked' THEN _active_color ELSE _bg_color

\* start_transition(state), the slot of stateChanged.  animation.start()
\* stops the animation already running on the same property, takes its
\* place and writes the start value.
start_transition(state) ==
    IF ~_user_checked
    THEN /\ update_pos_color(state # Unchecked)
         /\ UNCHANGED <<anims, _user_checked>>
    ELSE /\ posAnim' = create_animation(state)
         /\ colAnim' = create_bg_color_animation(state)
         /\ _circle_pos' = currentValue(posAnim')
         /\ _intermediate_bg_color' = currentValue(colAnim')
         /\ _user_checked' = FALSE

\* QAbstractButton.setChecked -> QCheckBox.checkStateSet -> stateChanged.
setCheckedTo(b) ==
    IF b = checked
    THEN UNCHANGED <<checked, display, anims, _user_checked>>
    ELSE /\ checked' = b
         /\ start_transition(CheckState(b))

----------------------------------------------------------------------------
(* Painting *)

\* Faulty variant: the background keeps its own colour when disabled.
paintEvent_bg_not_disabled ==
    IF _circle_pos = None \/ _intermediate_bg_color = None
    THEN [kind |-> "TypeError"]
    ELSE [kind         |-> "drawn",
          circle_color |-> IF ~enabled THEN _disabled_color
                                       ELSE _circle_color,
          bg_color     |-> _intermediate_bg_color,
          text_color   |-> IF ~enabled THEN _disabled_color
                                       ELSE _text_color,
          circle_x     |-> _circle_pos]

\* paintEvent: the three colours it builds and the circle's x position.
\* QColor(None) and addEllipse(None, ...) raise TypeError.
paintEvent ==
    IF _circle_pos = None \/ (enabled /\ _intermediate_bg_color = None)
    THEN [kind |-> "TypeError"]
    ELSE [kind         |-> "drawn",
          circle_color |-> IF ~enabled THEN _disabled_color
                                       ELSE _circle_color,
          bg_color     |-> IF ~enabled THEN _disabled_color
                                       ELSE _intermediate_bg_color,
          text_color   |-> IF ~enabled THEN _disabled_color
                                       ELSE _text_color,
          circle_x     |-> _circle_pos]

\* sizeHint: the base class's hint with the width replaced.
sizeHint(base) ==
    [kind |-> "hint",
     width |-> sizeHintWidth(height, text_width), height |-> base.height,
     base |-> base, for_height |-> height, for_text_width |-> text_width]

----------------------------------------------------------------------------
(* Initial state: QToggle.__init__ *)

Init ==
    /\ _bg_color = QColor_0BF
    /\ _circle_color = QColor_DDD
    /\ _active_color = QColor_777
    /\ _disabled_color = QColor_CCC
    /\ _text_color = QColor_000
    /\ _circle_pos = None
    /\ _intermediate_bg_color = None
    /\ height = DefaultHeight
    /\ _animation_duration = DefaultDuration
    /\ _user_checked = FALSE
    /\ checked = FALSE
    /\ down = FALSE
    /\ enabled = TRUE
    /\ shown = FALSE
    /\ text_width = 0
    /\ posAnim = NoAnim
    /\ colAnim = NoAnim
    /\ held = "none"
    /\ painted = NotPainted
    /\ hint = NoHint
    /\ prevHint = NoHint
    /\ expected = FALSE
    /\ pressedIn = FALSE
    /\ lastSet = [n \in ColourProps |-> colour_property(n)]
    /\ sinceClick = FALSE

----------------------------------------------------------------------------
(* Operations *)

\* Every event but a paint leaves nothing freshly painted; every event but
\* a paint and an animation step ends the quiet period after a click.
Event == painted' = NotPainted /\ sinceClick' = FALSE

SetDuration(d) ==
    /\ _animation_duration' = d
    /\ Event
    /\ UNCHANGED <<colours, display, anims, button, hints, enabled, shown,
                   height, held, expected, pressedIn, lastSet>>

SetColour(name, col) ==
    /\ set_colour_property(name, col)
    /\ lastSet' = [lastSet EXCEPT ![name] = col]
    /\ Event
    /\ UNCHANGED <<hints, enabled, shown, height, held, expected, pressedIn>>

SetChecked(b) ==
    /\ UNCHANGED <<colours, down, hints, _animation_duration, enabled, shown,
                   height, held, pressedIn, lastSet>>
    /\ setCheckedTo(b)
    /\ expected' = b
    /\ Event

\* QAbstractButton.changeEvent: disabling releases a button that is down.
SetEnabled(b) ==
    /\ enabled' = b
    /\ down' = (b /\ down)
    /\ pressedIn' = (b /\ pressedIn)
    /\ Event
    /\ UNCHANGED <<colours, display, anims, checked, _user_checked, hints,
                   _animation_duration, shown, height, held, expected,
                   lastSet>>

\* The first show: the pending resize event, then showEvent.
ShowEvent ==
    /\ ~shown
    /\ shown' = TRUE
    /\ UNCHANGED <<checked, height>>
    /\ update_pos_color(checked)
    /\ Event
    /\ UNCHANGED <<colours, anims, down, _user_checked, hints,
                   _animation_duration, enabled, held, expected, pressedIn,
                   lastSet>>

\* setFixedHeight(h): a shown widget gets resizeEvent at once, one not yet
\* shown gets it with its show.
SetFixedHeight(h) ==
    /\ h # height
    /\ height' = h
    /\ UNCHANGED checked
    /\ IF shown THEN update_pos_color(checked) ELSE UNCHANGED display
    /\ Event
    /\ UNCHANGED <<colours, anims, down, _user_checked, hints,
                   _animation_duration, enabled, shown, held, expected,
                   pressedIn, lastSet>>

\* mousePressEvent: the flag, then QAbstractButton.mousePressEvent, which
\* ignores every button but the left and every press hitButton rejects.
\* Only a shown, enabled widget gets mouse events.
MousePress(btn, pos) ==
    /\ shown /\ enabled /\ held = "none"
    /\ held' = btn
    /\ _user_checked' = TRUE
    /\ down' = IF btn = "left" /\ hitButton(pos) THEN TRUE ELSE down
    /\ pressedIn' = (btn = "left" /\ QRect_contains(contentsRect, pos))
    /\ Event
    /\ UNCHANGED <<colours, display, anims, checked, hints,
                   _animation_duration, enabled, shown, height, expected,
                   lastSet>>

\* QAbstractButton.mouseReleaseEvent (not overridden): a left release over
\* the button while it is down clicks it, and click() toggles the state.
MouseRelease(pos) ==
    /\ held # "none"
    /\ UNCHANGED <<colours, hints, _animation_duration, enabled, shown,
                   height, lastSet>>
    /\ held' = "none"
    /\ pressedIn' = FALSE
    /\ painted' = NotPainted
    /\ IF shown /\ enabled /\ held = "left" /\ down
       THEN /\ down' = FALSE
            /\ IF hitButton(pos)
               THEN /\ setCheckedTo(~checked)
                    /\ sinceClick' = TRUE
               ELSE /\ UNCHANGED <<checked, display, anims, _user_checked>>
                    /\ sinceClick' = FALSE
       ELSE /\ UNCHANGED <<display, anims, button>>
            /\ sinceClick' = FALSE
    /\ expected' = IF held = "left" /\ pressedIn
                      /\ QRect_contains(contentsRect, pos)
                   THEN ~expected ELSE expected

\* One update of the animation timer: every running animation advances by
\* TickMs, writes its value, and stops when it reaches its duration.
advance(a) ==
    IF a.running
    THEN [a EXCEPT !.currentTime = Min(a.duration, a.currentTime + TickMs)]
    ELSE a

finish(a) == IF a.running /\ a.currentTime >= a.duration THEN NoAnim ELSE a

AnimationStep ==
    /\ posAnim.running \/ colAnim.running
    /\ posAnim' = finish(advance(posAnim))
    /\ colAnim' = finish(advance(colAnim))
    /\ _circle_pos' = IF posAnim.running THEN currentValue(advance(posAnim))
                                         ELSE _circle_pos
    /\ _intermediate_bg_color' =
           IF colAnim.running THEN currentValue(advance(colAnim))
                              ELSE _intermediate_bg_color
    /\ painted' = NotPainted
    /\ UNCHANGED <<colours, button, hints, _animation_duration, enabled,
                   shown, height, held, expected, pressedIn, lastSet,
                   sinceClick>>

Paint ==
    /\ shown
    /\ painted' = paintEvent
    /\ UNCHANGED <<colours, display, anims, button, hints,
                   _animation_duration, enabled, shown, height, held,
                   expected, pressedIn, lastSet, sinceClick>>

\* setText: only the width of the text's bounding rectangle matters here.
SetText(tw) ==
    /\ text_width' = tw
    /\ Event
    /\ UNCHANGED <<colours, display, anims, button, hint, prevHint,
                   _animation_duration, enabled, shown, height, held,
                   expected, pressedIn, lastSet>>

\* A call of sizeHint(), by the layout or by the program.
SizeHintCall(base) ==
    /\ hint' = sizeHint(base)
    /\ prevHint' = hint
    /\ UNCHANGED <<colours, display, anims, button, text_width,
                   _animation_duration, enabled, shown, height, held, painted,
                   expected, pressedIn, lastSet, sinceClick>>

Next ==
    \/ \E d \in Durations : SetDuration(d)
    \/ \E n \in ColourProps, c \in Palette : SetColour(n, c)
    \/ \E b \in BOOLEAN : SetChecked(b)
    \/ \E b \in BOOLEAN : SetEnabled(b)
    \/ ShowEvent
    \/ \E h \in Heights : SetFixedHeight(h)
    \/ \E btn \in {"left", "right"}, pos \in MousePoints : MousePress(btn, pos)
    \/ \E pos \in MousePoints : MouseRelease(pos)
    \/ AnimationStep
    \/ Paint

Spec == Init /\ [][Next]_vars

\* The widget before it is shown, its text and height being set and its
\* size hint asked for.
NextHint ==
    \/ \E tw \in TextWidths : SetText(tw)
    \/ \E h \in Heights : SetFixedHeight(h)
    \/ \E base \in BaseHints : SizeHintCall(base)

SpecHint == Init /\ [][NextHint]_vars

----------------------------------------------------------------------------
(* Properties *)

\* Where the circle and the background rest for a checked state.
RestPos(chk) == Some(height * (IF chk THEN 11 ELSE 1))
RestColour(chk) == IF chk THEN _active_color ELSE _bg_color
AtRest == _circle_pos = RestPos(checked)
          /\ _intermediate_bg_color = RestColour(checked)
Animating == posAnim.running \/ colAnim.running

\* A step that changes the checked state is a mouse release (the held
\* button changes with it) or a programmatic setChecked (it does not).
ProgrammaticChange == checked' # checked /\ held' = held
UserChange == checked' # checked /\ held' # held

\* C1: a checked-state change made by a programmatic setChecked never starts
\* an animation, whatever came before it; it snaps the circle to
\* height*1.1 / height*0.1 and the background to active_color / bg_color.
C1_ProgrammaticChangeSnaps ==
    [][ProgrammaticChange =>
          /\ UNCHANGED anims
          /\ _circle_pos' = Some(height * (IF checked' THEN 11 ELSE 1))
          /\ _intermediate_bg_color' =
                IF checked' THEN _active_color ELSE _bg_color]_vars

\* C2: every checked-state change made by the user on the toggle starts the
\* two animations, each with the duration configured at that moment, from
\* the rest values of the old state to those of the new one.
C2_UserChangeAnimates ==
    [][UserChange =>
          /\ posAnim' = [running |-> TRUE,
                         duration |-> _animation_duration,
                         startValue |-> RestPos(checked),
                         endValue |-> RestPos(checked'),
                         currentTime |-> 0]
          /\ colAnim' = [running |-> TRUE,
                         duration |-> _animation_duration,
                         startValue |-> RestColour(checked),
                         endValue |-> RestColour(checked'),
                         currentTime |-> 0]]_vars

\* C3: the checked state is the value of the last setChecked, flipped once
\* per later left click pressed and released inside the contents rectangle;
\* no other event (animation step, snap, setter, resize, paint) changes it.
C3_CheckedIsExpected == checked = expected

C3_Witness == checked /\ sinceClick /\ Animating /\ height # DefaultHeight

\* C4: a disabled widget is painted with disabled_color for the background,
\* the circle and the text, whatever the checked state and the animation's
\* progress; an enabled one with intermediate_bg_color, circle_color and
\* text_color.
C4_PaintColours ==
    painted.kind = "drawn" =>
        IF ~enabled
        THEN /\ painted.bg_color = _disabled_color
             /\ painted.circle_color = _disabled_color
             /\ painted.text_color = _disabled_color
        ELSE /\ painted.bg_color = _intermediate_bg_color
             /\ painted.circle_color = _circle_color
             /\ painted.text_color = _text_color

C4_Witness ==
    /\ painted.kind = "drawn" /\ ~enabled /\ checked /\ Animating
    /\ _disabled_color # _intermediate_bg_color
    /\ _intermediate_bg_color # RestColour(checked)

\* C5: the hinted width is 2*height + 1.075*text_width truncated, so it is
\* at least twice the height and does not decrease when neither the height
\* nor the text width does; the hinted height is the base class's.
C5_SizeHint ==
    hint.kind = "hint" =>
        LET milli == 2000 * hint.for_height + 1075 * hint.for_text_width
        IN  /\ 1000 * hint.width <= milli
            /\ milli < 1000 * (hint.width + 1)
            /\ hint.width >= 2 * hint.for_height
            /\ hint.height = hint.base.height
            /\ (/\ prevHint.kind = "hint"
                /\ prevHint.for_height <= hint.for_height
                /\ prevHint.for_text_width <= hint.for_text_width)
               => prevHint.width <= hint.width

C5_Witness ==
    /\ hint.kind = "hint" /\ prevHint.kind = "hint"
    /\ prevHint.for_height < hint.for_height
    /\ prevHint.for_text_width < hint.for_text_width
    /\ prevHint.base # hint.base
    /\ (1075 * hint.for_text_width) % 1000 # 0

\* C6: after a user click changes the state, with nothing but animation
\* steps (and paints) since, the animations once finished leave the circle
\* and the background at the rest values of the new state.
C6_ClickSettlesAtRest == (sinceClick /\ ~Animating) => AtRest

\* C7: each colour property reads back the last value set for it (or its
\* constructor default); a step that sets a colour changes one colour only
\* and, like a step that sets the duration, leaves the checked state, the
\* circle position, the intermediate colour, the press flag and the
\* running animations as they were.
C7_SettersOnlySet ==
    /\ [](\A n \in ColourProps : colour_property(n) = lastSet[n])
    /\ [][colours' # colours =>
            /\ Cardinality({i \in 1..5 : colours'[i] # colours[i]}) = 1
            /\ UNCHANGED <<display, anims, button, _animation_duration>>]_vars
    /\ [][_animation_duration' # _animation_duration =>
            UNCHANGED <<colours, display, anims, button>>]_vars

C7_Witness ==
    /\ colAnim.running /\ colAnim.currentTime > 0
    /\ colAnim.duration # _animation_duration
    /\ colAnim.startValue # _bg_color /\ colAnim.endValue # _active_color
    /\ _circle_color = QColor_FAA /\ _text_color = QColor_000

\* C8: whenever the widget has been shown and no animation is running, the
\* circle and the background are at the rest values of the checked state.
C8_IdleDisplayAgrees == (shown /\ ~Animating) => AtRest

\* C9: the press flag is True only from a mouse press until the state
\* change of that press has been handled: with no button held it is False.
C9_FlagOnlyDuringPress == held = "none" => ~_user_checked

\* C10: whenever paintEvent runs the circle position and the intermediate
\* colour are defined: show sets them before any paint and nothing resets
\* them to None.
C10_DisplayDefinedWhenPainted ==
    /\ [](painted.kind # "TypeError")
    /\ [](shown => _circle_pos # None /\ _intermediate_bg_color # None)
    /\ [][/\ _circle_pos # None => _circle_pos' # None
          /\ _intermediate_bg_color # None =>
                _intermediate_bg_color' # None]_vars

C10_Witness ==
    /\ painted.kind = "drawn" /\ Animating /\ enabled
    /\ painted.circle_x # RestPos(TRUE) /\ painted.circle_x # RestPos(FALSE)

====
